---- MODULE Spec2Model ----
(***************************************************************************)
(* taskrs: a command line to-do manager.  Every invocation of the program  *)
(* reads the whole task file, changes the list in memory and rewrites the  *)
(* whole file.  The model's state is the file on disk; one action is one   *)
(* invocation of one command (src/src/lib.rs, TaskStore; src/src/main.rs   *)
(* holds a copy of the same handlers with a slightly different list).      *)
(***************************************************************************)
EXTENDS Integers, Sequences, FiniteSets

\* ------------------------------------------------------------------ bounds
\* add is not modelled once the largest id is MaxId (so a list holds at most
\* MaxId tasks).  Ids are u32 in the program; max_id + 1 overflows only at
\* 2^32 - 1 (a panic in a debug build, a wrap to 0 in a release build), which
\* lies beyond every bound used here.
MaxId == 3
\* in the behaviours where writes may fail, add is not modelled once the list
\* holds MaxFaultTasks tasks
MaxFaultTasks == 2
\* a write that fails after the file was opened leaves at most MaxCut tokens
MaxCut == 0

\* the descriptions the commands are given
Descriptions == {"a", "b"}

Ids == 1..MaxId

\* ------------------------------------------------------------ task records
\* TaskItem::new
TaskItem_new(id, task) == [id |-> id, task |-> task, done |-> FALSE]

\* --------------------------------------------------------- the file's text
\* The file's text is a sequence of tokens: "[", one token per task, "]".
Tok(k) == [k |-> k, id |-> 0, task |-> "", done |-> FALSE]

TaskTok(t) == [k |-> "task", id |-> t.id, task |-> t.task, done |-> t.done]

\* serde_json::to_writer on a slice of TaskItem
to_writer(tasks) ==
    <<Tok("[")>> \o [i \in 1..Len(tasks) |-> TaskTok(tasks[i])] \o <<Tok("]")>>

\* serde_json::from_reader into Vec<TaskItem>: Err unless the text is one
\* complete array of tasks
from_reader(bytes) ==
    IF /\ Len(bytes) >= 2
       /\ bytes[1].k = "["
       /\ bytes[Len(bytes)].k = "]"
       /\ \A i \in 2..(Len(bytes) - 1) : bytes[i].k = "task"
    THEN [ok |-> TRUE,
          tasks |-> [i \in 1..(Len(bytes) - 2) |->
                        [id |-> bytes[i + 1].id, task |-> bytes[i + 1].task,
                         done |-> bytes[i + 1].done]]]
    ELSE [ok |-> FALSE, tasks |-> <<>>]

NoFile == [exists |-> FALSE, bytes |-> <<>>]

\* read_tasks: File::open fails on a missing file, from_reader on a bad text
read_tasks(f) ==
    IF ~f.exists THEN [ok |-> FALSE, tasks |-> <<>>] ELSE from_reader(f.bytes)

\* Result::unwrap_or_default on the result of read_tasks
unwrap_or_default(r) == IF r.ok THEN r.tasks ELSE <<>>

\* the task collection an invocation sees in file f
Load(f) == unwrap_or_default(read_tasks(f))

\* The ways write_tasks can go: "none" (written), "open" (OpenOptions::open
\* fails, the file is untouched), "io" (the file was opened, hence truncated,
\* and only the first cut tokens reached it).
AllFaults(tasks) ==
    {[kind |-> "none", cut |-> 0], [kind |-> "open", cut |-> 0]}
        \cup {[kind |-> "io", cut |-> c] :
                 c \in {c \in 0..MaxCut : c < Len(to_writer(tasks))}}

write_tasks_trunc(f, tasks, fault) ==
    CASE fault.kind = "open" -> [exists |-> TRUE, bytes |-> <<>>]
      [] fault.kind = "none" -> [exists |-> TRUE, bytes |-> to_writer(tasks)]
      [] OTHER -> [exists |-> TRUE, bytes |-> SubSeq(to_writer(tasks), 1, fault.cut)]

\* write_tasks: the file after the call
write_tasks(f, tasks, fault) ==
    CASE fault.kind = "open" -> f
      [] fault.kind = "none" -> [exists |-> TRUE, bytes |-> to_writer(tasks)]
      [] OTHER -> [exists |-> TRUE, bytes |-> SubSeq(to_writer(tasks), 1, fault.cut)]

\* ------------------------------------------------------------ list helpers
IdsOf(tasks) == {tasks[i].id : i \in 1..Len(tasks)}

SetMax(S) == CHOOSE m \in S : \A x \in S : x <= m

max_id_len(tasks) == Len(tasks)

max_id_last(tasks) == IF tasks = <<>> THEN 0 ELSE tasks[Len(tasks)].id

\* tasks.iter().map(|task| task.id).max().unwrap_or(0)
max_id(tasks) == IF tasks = <<>> THEN 0 ELSE SetMax(IdsOf(tasks))

push_front(tasks, t) == <<t>> \o tasks

\* Vec::push
push(tasks, t) == Append(tasks, t)

position_or_first(tasks, id) ==
    IF \E i \in 1..Len(tasks) : tasks[i].id = id
    THEN CHOOSE i \in 1..Len(tasks) :
            /\ tasks[i].id = id
            /\ \A j \in 1..(i - 1) : tasks[j].id # id
    ELSE IF tasks = <<>> THEN 0 ELSE 1

\* tasks.iter().position(|task| task.id == id), and iter_mut().find():
\* the first index holding id, 0 for None
position(tasks, id) ==
    IF \E i \in 1..Len(tasks) : tasks[i].id = id
    THEN CHOOSE i \in 1..Len(tasks) :
            /\ tasks[i].id = id
            /\ \A j \in 1..(i - 1) : tasks[j].id # id
    ELSE 0

\* Vec::remove(index)
remove(tasks, index) ==
    [i \in 1..(Len(tasks) - 1) |-> IF i < index THEN tasks[i] ELSE tasks[i + 1]]

exchange_items(tasks, index1, index2, id1, id2) ==
    [i \in 1..Len(tasks) |->
        IF i = index1 THEN tasks[index2]
        ELSE IF i = index2 THEN tasks[index1] ELSE tasks[i]]

exchange_one(tasks, index1, index2, id1, id2) ==
    LET t1 == [tasks EXCEPT ![index1].id = id2]
    IN  [t1 EXCEPT ![index2].id = id2]

\* tasks[index1].id = id2; tasks[index2].id = id1;
exchange(tasks, index1, index2, id1, id2) ==
    LET t1 == [tasks EXCEPT ![index1].id = id2]
    IN  [t1 EXCEPT ![index2].id = id1]

\* the filter of list_tasks: |task| !task.done || all
keep(tasks, all) ==
    LET F[i \in 0..Len(tasks)] ==
            IF i = 0 THEN <<>>
            ELSE IF ~tasks[i].done \/ all THEN Append(F[i - 1], tasks[i])
            ELSE F[i - 1]
    IN  F[Len(tasks)]

\* insertion of t after the last element whose id is <= t.id
Insert(sorted, t) ==
    LET n == Cardinality({i \in 1..Len(sorted) : sorted[i].id <= t.id})
    IN  SubSeq(sorted, 1, n) \o <<t>> \o SubSeq(sorted, n + 1, Len(sorted))

sort_by_key_none(tasks) == tasks

\* slice::sort_by_key(|task| task.id): a stable sort, ascending
sort_by_key(tasks) ==
    LET S[i \in 0..Len(tasks)] ==
            IF i = 0 THEN <<>> ELSE Insert(S[i - 1], tasks[i])
    IN  S[Len(tasks)]

\* TaskStore::list_tasks (lib.rs): filter, then sort
list_tasks_lib(tasks, all) == sort_by_key(keep(tasks, all))

\* list_tasks (main.rs): sort, then filter
list_tasks_main(tasks, all) == keep(sort_by_key(tasks), all)

is_empty_never(tasks) == FALSE

\* Vec::is_empty
is_empty(tasks) == Len(tasks) = 0

\* ------------------------------------------------- the confirmation answer
\* A line of input is a sequence of characters.
lower(c) == IF c = "Y" THEN "y" ELSE IF c = "N" THEN "n" ELSE c

\* str::to_lowercase
to_lowercase(s) == [i \in 1..Len(s) |-> lower(s[i])]

is_whitespace(c) == c \in {" ", "\n", "\r", "\t"}

trim_none(s) == s

\* str::trim: leading and trailing whitespace removed
trim(s) ==
    LET solid == {i \in 1..Len(s) : ~is_whitespace(s[i])}
    IN  IF solid = {} THEN <<>>
        ELSE SubSeq(s, CHOOSE a \in solid : \A x \in solid : a <= x, SetMax(solid))

\* what read_line can put in the input buffer (the last one: end of input)
Answers ==
    { <<"y", "\n">>, <<"Y", "\n">>, <<"n", "\n">>, <<" ", "y", " ", "\n">>, <<>> }

\* standard input at the prompt: read_line fails, or fills the buffer
Stdin ==
    {[readable |-> FALSE, input |-> <<>>]}
        \cup {[readable |-> TRUE, input |-> a] : a \in Answers}

\* reset --force never reads standard input
Unread == [readable |-> TRUE, input |-> <<>>]

StdinOf(force) == IF force THEN {Unread} ELSE Stdin

\* ---------------------------------------------------------------- state
VARIABLES
    file,       \* the task file: [exists, bytes]
    last,       \* the last invocation: command, what it read, what it did
    stdout,     \* the tasks the last invocation listed
    addsOnly,   \* every invocation so far was an add that was written
    nAdds,      \* while addsOnly: how many adds there were
    gap,        \* 1 once id 1 (the first id ever assigned) was deleted while
                \* a larger id was stored; 0 before, and when deletions are
                \* not recorded
    mode        \* the behaviour's environment, fixed at the start:
                \*   "plain"   every write succeeds
                \*   "history" every write succeeds, the deletion of id 1 is
                \*             recorded in gap
                \*   "faults"  a write may fail

vars == <<file, last, stdout, addsOnly, nAdds, gap, mode>>

\* the ways the write of tasks can go in this behaviour
WriteFaults(tasks) ==
    IF mode = "faults" THEN AllFaults(tasks) ELSE {[kind |-> "none", cut |-> 0]}

\* res:  "ok" written, "open"/"io" write_tasks failed, "none" no write called
\* nf:   0 found, 1 "Task not found"/"Task 1 not found", 2 "Task 2 not found"
\* flag: --all of list, --force of reset
\* readable, input: what reset read from standard input, when it did read
Rec(op, flag, readable, input, res, nf, newId) ==
    [op |-> op, flag |-> flag, readable |-> readable, input |-> input,
     res |-> res, nf |-> nf, newId |-> newId]

Res(fault) == IF fault.kind = "none" THEN "ok" ELSE fault.kind

\* the state before the first invocation: no task file yet
Start ==
    /\ file = NoFile
    /\ last = Rec("start", FALSE, TRUE, <<>>, "none", 0, 0)
    /\ stdout = <<>>
    /\ addsOnly = TRUE
    /\ nAdds = 0
    /\ gap = 0

Init == Start /\ mode = "plain"

InitGap == Start /\ mode = "history"

InitFaults == Start /\ mode = "faults"

\* One invocation of the program (main): the command's effect on the file,
\* and the record of it.  deleted: the id a delete removed, or 0.
Invoke(newFile, rec, out, deleted) ==
    /\ file' = newFile
    /\ last' = rec
    /\ stdout' = out
    /\ addsOnly' = (addsOnly /\ rec.op = "add" /\ rec.res = "ok")
    /\ nAdds' = IF addsOnly /\ rec.op = "add" /\ rec.res = "ok" THEN nAdds + 1 ELSE 0
    /\ gap' = IF /\ mode = "history" /\ gap = 0
                 /\ deleted = 1 /\ rec.res = "ok"
                 /\ deleted < max_id(Load(file))
              THEN deleted ELSE gap
    /\ mode' = mode

\* ---------------------------------------------------------------- commands
\* TaskStore::add_task
add_task(task) ==
    LET tasks == unwrap_or_default(read_tasks(file))
        id == max_id(tasks) + 1
        tasks2 == push(tasks, TaskItem_new(id, task))
    IN  /\ max_id(tasks) < MaxId
        /\ mode = "faults" => Len(tasks) < MaxFaultTasks
        /\ \E fault \in WriteFaults(tasks2) :
              Invoke(write_tasks(file, tasks2, fault),
                     Rec("add", FALSE, TRUE, <<>>, Res(fault), 0, id), <<>>, 0)

\* TaskStore::list_tasks
list_tasks(all) ==
    LET tasks == unwrap_or_default(read_tasks(file))
    IN  /\ TRUE
        /\ Invoke(file, Rec("list", all, TRUE, <<>>, "none", 0, 0),
                  list_tasks_lib(tasks, all), 0)

\* TaskStore::update_task
update_task(id, task) ==
    LET tasks == unwrap_or_default(read_tasks(file))
        current == position(tasks, id)
    IN  IF current = 0
        THEN Invoke(file, Rec("update", FALSE, TRUE, <<>>, "none", 1, 0), <<>>, 0)
        ELSE LET tasks2 == [tasks EXCEPT ![current].task = task]
             IN  \E fault \in WriteFaults(tasks2) :
                    Invoke(write_tasks(file, tasks2, fault),
                           Rec("update", FALSE, TRUE, <<>>, Res(fault), 0, 0), <<>>, 0)

\* TaskStore::mark_task
mark_task(id, done) ==
    LET tasks == unwrap_or_default(read_tasks(file))
        current == position(tasks, id)
    IN  IF current = 0
        THEN Invoke(file, Rec("mark", FALSE, TRUE, <<>>, "none", 1, 0), <<>>, 0)
        ELSE LET tasks2 == [tasks EXCEPT ![current].done = done]
             IN  \E fault \in WriteFaults(tasks2) :
                    Invoke(write_tasks(file, tasks2, fault),
                           Rec("mark", FALSE, TRUE, <<>>, Res(fault), 0, 0), <<>>, 0)

\* TaskStore::delete_task
delete_task(id) ==
    LET tasks == unwrap_or_default(read_tasks(file))
        index == position(tasks, id)
    IN  IF index = 0
        THEN Invoke(file, Rec("delete", FALSE, TRUE, <<>>, "none", 1, 0), <<>>, 0)
        ELSE LET tasks2 == remove(tasks, index)
             IN  \E fault \in WriteFaults(tasks2) :
                    Invoke(write_tasks(file, tasks2, fault),
                           Rec("delete", FALSE, TRUE, <<>>, Res(fault), 0, 0), <<>>, id)

\* the body of swap_tasks between the read and the write: which id was not
\* found (nf), and the list to write
swapped(tasks, id1, id2) ==
    LET index1 == position(tasks, id1)
        index2 == position(tasks, id2)
    IN  IF index1 = 0 THEN [nf |-> 1, tasks |-> tasks]
        ELSE IF index2 = 0 THEN [nf |-> 2, tasks |-> tasks]
        ELSE [nf |-> 0, tasks |-> exchange(tasks, index1, index2, id1, id2)]

\* TaskStore::swap_tasks
swap_tasks(id1, id2) ==
    LET tasks == unwrap_or_default(read_tasks(file))
        r == swapped(tasks, id1, id2)
    IN  IF r.nf # 0
        THEN Invoke(file, Rec("swap", FALSE, TRUE, <<>>, "none", r.nf, 0), <<>>, 0)
        ELSE \E fault \in WriteFaults(r.tasks) :
                Invoke(write_tasks(file, r.tasks, fault),
                       Rec("swap", FALSE, TRUE, <<>>, Res(fault), 0, 0), <<>>, 0)

\* TaskStore::reset_tasks.  stdin is read only when the list is not empty and
\* force is not set.
reset_tasks(force, stdin) ==
    LET tasks == unwrap_or_default(read_tasks(file))
    IN  IF is_empty(tasks)
        THEN Invoke(file, Rec("reset", force, TRUE, <<>>, "none", 0, 0), <<>>, 0)
        ELSE IF ~force /\ ~stdin.readable
        THEN Invoke(file, Rec("reset", force, FALSE, <<>>, "none", 0, 0), <<>>, 0)
        ELSE LET truncate == force \/ trim(to_lowercase(stdin.input)) = <<"y">>
                 tasks2 == IF truncate THEN <<>> ELSE tasks
             IN  \E fault \in WriteFaults(tasks2) :
                    Invoke(write_tasks(file, tasks2, fault),
                           Rec("reset", force, TRUE, stdin.input, Res(fault), 0, 0), <<>>, 0)

Next ==
    \/ \E task \in Descriptions : add_task(task)
    \/ \E all \in BOOLEAN : list_tasks(all)
    \/ \E id \in Ids, task \in Descriptions : update_task(id, task)
    \/ \E id \in Ids, done \in BOOLEAN : mark_task(id, done)
    \/ \E id \in Ids : delete_task(id)
    \/ \E id1 \in Ids, id2 \in Ids : swap_tasks(id1, id2)
    \/ \E force \in BOOLEAN : \E stdin \in StdinOf(force) : reset_tasks(force, stdin)

Spec == Init /\ [][Next]_vars

SpecGap == InitGap /\ [][Next]_vars

SpecFaults == InitFaults /\ [][Next]_vars

\* ================================================================ claims
\* the persisted collection: what the next invocation loads
Stored == Load(file)

StoredNext == Load(file')

\* some task is stored before a task with a smaller id
Unsorted(tasks) ==
    \E i \in 1..Len(tasks), j \in 1..Len(tasks) : i < j /\ tasks[i].id > tasks[j].id

Ascending(tasks) ==
    \A i \in 1..Len(tasks), j \in 1..Len(tasks) : i < j => tasks[i].id < tasks[j].id

Elems(tasks) == {tasks[i] : i \in 1..Len(tasks)}

\* C1: the persisted collection never holds two tasks with the same id.
C1_UniqueIds ==
    \A i \in 1..Len(Stored), j \in 1..Len(Stored) :
        Stored[i].id = Stored[j].id => i = j

\* every write so far succeeded, and an add was written after a deletion
\* left a hole in the ids and a swap left the storage order different from
\* the id order
C1_Witness ==
    /\ last.op = "add" /\ last.res = "ok"
    /\ gap > 0
    /\ Len(Stored) >= 3
    /\ Unsorted(Stored)

\* C2: after N adds and nothing else, the collection is N tasks, the k-th
\* with id k and not done.
C2_AddsNumberFromOne ==
    addsOnly =>
        /\ Len(Stored) = nAdds
        /\ \A k \in 1..Len(Stored) : Stored[k].id = k /\ ~Stored[k].done

C2_Witness == addsOnly /\ nAdds >= 3 /\ Len(Stored) >= 3

\* C3 as claimed: an id deleted while it was not the largest is never given
\* to a later add (gap is such an id, once it is not 0).
C3_NeverReassigned ==
    (last.op = "add" /\ last.res = "ok" /\ gap > 0) => last.newId # gap

\* C3 as amended: an add that is written appends one task whose id is larger
\* than every id stored at that time; so an id deleted earlier is not given
\* out again while a task with that id or a larger one is stored.
C3_AboveEveryStoredId ==
    [][(last'.op = "add" /\ last'.res = "ok") =>
          /\ Len(StoredNext) = Len(Stored) + 1
          /\ StoredNext[Len(StoredNext)].id = last'.newId
          /\ \A i \in 1..Len(Stored) : last'.newId > Stored[i].id
          /\ (gap > 0 /\ \E i \in 1..Len(Stored) : Stored[i].id >= gap)
                => last'.newId # gap]_vars

\* an add was written while the deleted id was still free and a larger id
\* was stored beside the new one
C3_Witness ==
    /\ last.op = "add" /\ last.res = "ok"
    /\ gap > 0
    /\ gap \notin IdsOf(Stored)
    /\ Len(Stored) >= 2

\* the outcome C4 asks for: the message, no call of write_tasks, the same file
NotFoundUntouched == last'.nf # 0 /\ last'.res = "none" /\ file' = file

\* the step ran the command op and did not have that outcome
Touched(op) == last'.op = op /\ ~NotFoundUntouched

\* C4: update, mark, delete and swap on an id that is not stored report it
\* and write nothing; the file stays as it was.  (Each line reads: a step
\* with another outcome is not this command on an id that is not stored.)
C4_AbsentIdNoWrite ==
    [][\A id \in Ids \ IdsOf(Stored) :
          /\ Touched("update") => \A task \in Descriptions : ~update_task(id, task)
          /\ Touched("mark") => \A done \in BOOLEAN : ~mark_task(id, done)
          /\ Touched("delete") => ~delete_task(id)
          /\ Touched("swap") => \A other \in Ids :
                ~swap_tasks(id, other) /\ ~swap_tasks(other, id)
          /\ (last'.op = "swap" /\ last'.nf # 1) => \A other \in Ids :
                ~swap_tasks(id, other)]_vars

\* a swap found its first id and not its second
C4_Witness == last.op = "swap" /\ last.nf = 2 /\ Len(Stored) >= 2

\* C5: swapping the same two stored ids twice gives back the collection as
\* it was, position by position.
C5_SwapTwiceRestores ==
    \A id1 \in IdsOf(Stored), id2 \in IdsOf(Stored) :
        LET once == swapped(Stored, id1, id2)
            twice == swapped(once.tasks, id1, id2)
        IN  once.nf = 0 /\ twice.nf = 0 /\ twice.tasks = Stored

C5_Witness ==
    /\ last.op = "swap" /\ last.res = "ok"
    /\ Unsorted(Stored)
    /\ Len(Stored) >= 3
    /\ \E id1 \in IdsOf(Stored), id2 \in IdsOf(Stored) :
          id1 # id2 /\ swapped(Stored, id1, id2).tasks # Stored

\* C6: list prints the tasks that are not done (all of them with --all), in
\* strictly ascending id order, writes nothing, and the two list_tasks agree.
C6_ListSortedFiltered ==
    [][last'.op = "list" =>
          /\ file' = file /\ last'.res = "none"
          /\ Elems(stdout') = {t \in Elems(Stored) : ~t.done \/ last'.flag}
          /\ Len(stdout') = Cardinality({t \in Elems(Stored) : ~t.done \/ last'.flag})
          /\ Ascending(stdout')
          /\ stdout' = list_tasks_main(Stored, last'.flag)]_vars

\* a list without --all of an unsorted file that holds a done task
C6_Witness ==
    /\ last.op = "list" /\ ~last.flag
    /\ Unsorted(Stored)
    /\ Len(stdout) >= 2
    /\ Len(stdout) < Len(Stored)

\* the typed answer: the line without its terminator
Line(s) == IF s # <<>> /\ s[Len(s)] = "\n" THEN SubSeq(s, 1, Len(s) - 1) ELSE s

\* the typed answer is y or Y
SaysY(stdin) == stdin.readable /\ Line(stdin.input) \in {<<"y">>, <<"Y">>}

\* the typed answer is y or Y between any blanks
SaysYBetweenBlanks(stdin) ==
    /\ stdin.readable
    /\ \E i \in 1..Len(stdin.input) :
          /\ stdin.input[i] \in {"y", "Y"}
          /\ \A j \in 1..Len(stdin.input) : j # i => stdin.input[j] \in {" ", "\n", "\r", "\t"}

\* the step is reset --force (or not) reading stdin
ResetStep(force, stdin) ==
    /\ last'.op = "reset" /\ last'.flag = force
    /\ last'.input \in {<<>>, stdin.input}
    /\ reset_tasks(force, stdin)

\* C7 as claimed: with the writes succeeding, reset leaves the collection
\* empty exactly when it was empty, or force is set, or the answer is y or Y;
\* otherwise the collection is unchanged.
C7_ResetClearsIffY ==
    [][\A force \in BOOLEAN : \A stdin \in StdinOf(force) :
          (ResetStep(force, stdin) /\ last'.res \in {"ok", "none"}) =>
              IF Stored = <<>> \/ force \/ SaysY(stdin)
              THEN StoredNext = <<>>
              ELSE StoredNext # <<>> /\ StoredNext = Stored]_vars

\* C7 as amended: the answer counts as y when, once the blanks around it are
\* removed, it is y or Y.
C7_ResetClearsIffTrimmedY ==
    [][\A force \in BOOLEAN : \A stdin \in StdinOf(force) :
          (ResetStep(force, stdin) /\ last'.res \in {"ok", "none"}) =>
              IF Stored = <<>> \/ force \/ SaysYBetweenBlanks(stdin)
              THEN StoredNext = <<>>
              ELSE StoredNext # <<>> /\ StoredNext = Stored]_vars

\* the answer " y " emptied the collection
C7_Witness ==
    /\ last.op = "reset" /\ ~last.flag /\ last.res = "ok"
    /\ last.input = <<" ", "y", " ", "\n">>
    /\ file.exists /\ Stored = <<>>

\* C8 as claimed: reset calls write_tasks only when it clears the list: not
\* when the list is empty, and not when force is unset and the answer is not y.
C8_ResetWritesOnlyWhenClearing ==
    [][\A force \in BOOLEAN : \A stdin \in StdinOf(force) :
          ResetStep(force, stdin) =>
              /\ Stored = <<>> => last'.res = "none"
              /\ (~force /\ ~SaysYBetweenBlanks(stdin)) => last'.res = "none"]_vars

\* C8 as amended: reset calls write_tasks unless the list is empty or the
\* answer cannot be read; a readable answer that is not y makes it write the
\* unchanged list back.
C8_ResetWritesUnlessEmptyOrUnreadable ==
    [][\A force \in BOOLEAN : \A stdin \in StdinOf(force) :
          ResetStep(force, stdin) =>
              /\ last'.res = "none" <=> (Stored = <<>> \/ (~force /\ ~stdin.readable))
              /\ last'.res = "none" => file' = file
              /\ (last'.res = "ok" /\ ~force /\ ~SaysYBetweenBlanks(stdin))
                    => file' = [exists |-> TRUE, bytes |-> to_writer(Stored)]]_vars

\* the answer n made reset write the list back
C8_Witness ==
    /\ last.op = "reset" /\ ~last.flag /\ last.res = "ok"
    /\ last.input = <<"n", "\n">>
    /\ Stored # <<>>

\* C9 as claimed: after a failed write the next load sees the collection as
\* it was before the failed command.
C9_FailedWriteKeepsCollection ==
    [][last'.res \in {"open", "io"} => StoredNext = Stored]_vars

\* C9 as amended: when the file cannot be opened it is untouched; when the
\* write fails after the open, the file was truncated and holds an incomplete
\* text, which the next load reads as the empty collection.
C9_FailedWriteOpenKeepsIoEmpties ==
    [][/\ last'.res = "open" => file' = file
       /\ last'.res = "io" =>
             /\ file'.exists
             /\ ~read_tasks(file').ok
             /\ StoredNext = <<>>]_vars

\* an update found its task, and its write failed after the open
C9_Witness ==
    /\ last.op = "update" /\ last.res = "io"
    /\ file.exists /\ Stored = <<>>

\* C10: a swap of two stored ids changes the ids of the two tasks and nothing
\* else in what it writes: same length, same descriptions and done flags at
\* every position, same ids elsewhere, same set of ids.
C10_SwapChangesOnlyTwoIds ==
    \A id1 \in IdsOf(Stored), id2 \in IdsOf(Stored) :
        LET r == swapped(Stored, id1, id2)
            after == Load(write_tasks(file, r.tasks, [kind |-> "none", cut |-> 0]))
        IN  /\ r.nf = 0
            /\ Len(after) = Len(Stored)
            /\ IdsOf(after) = IdsOf(Stored)
            /\ \A i \in 1..Len(Stored) :
                  /\ after[i].task = Stored[i].task
                  /\ after[i].done = Stored[i].done
                  /\ after[i].id =
                        IF Stored[i].id = id1 THEN id2
                        ELSE IF Stored[i].id = id2 THEN id1
                        ELSE Stored[i].id

\* a swap was written in a file of three tasks that differ in description
\* and in done flag
C10_Witness ==
    /\ last.op = "swap" /\ last.res = "ok"
    /\ Len(Stored) >= 3
    /\ Unsorted(Stored)
    /\ \E i \in 1..Len(Stored), j \in 1..Len(Stored) :
          Stored[i].task # Stored[j].task /\ Stored[i].done # Stored[j].done

====
